---- MODULE Spec2Model ----
(***************************************************************************)
(* A model of the hierarchical knowledge store of knowledge-assistant:     *)
(* LanceDBManager (src/tools/lancedb_manager.py) over the three tables     *)
(* categories / topics / entries, with the embedding provider              *)
(* OpenAIEmbeddings (src/tools/knowledge_base.py) as its collaborator.     *)
(*                                                                         *)
(* A table is the set of its rows.  Every public operation is one action;  *)
(* the record `call` holds the outcome of the operation that produced the  *)
(* current state (what it returned or raised, the provider and search      *)
(* calls it made), so that a property of an operation is a property of the *)
(* step (tables, tables', call') taken by its action.                      *)
(*                                                                         *)
(* The question-answering pipeline, QAProcessor (src/tools/qa_processor.py)*)
(* and KnowledgeBaseSearchApp._process_with_qa (src/app/kb_search_st.py),  *)
(* is modelled over one request: what retrieval found and whether the      *)
(* completions answer; `pipeline` follows one answer function from stage   *)
(* to stage.                                                               *)
(*                                                                         *)
(* `indices` is the set of (table, column) pairs that have an index.       *)
(* `writers` holds the store operations that are followed statement by     *)
(* statement, each storage call a step that can fail: the cascading        *)
(* deletes, the creates of two writers, and the updates.                   *)
(***************************************************************************)
EXTENDS Integers, Sequences, FiniteSets, TLC

VARIABLES categories, topics, entries, nextId, client, rawAdds, call,
          request, process, session_state, pipeline, indices, writers

vars == <<categories, topics, entries, nextId, client, rawAdds, call,
          request, process, session_state, pipeline, indices, writers>>

\* what the store operations leave alone: the question-answering request, the
\* activation of _process_with_qa, the Streamlit session state, the stage an
\* answer function has got to, and the store operations that run step by step
qa == <<request, process, session_state, pipeline, writers>>

tables == <<categories, topics, entries>>

----------------------------------------------------------------------------
(* Bounds of the model *)

\* number of category / topic / entry ids handed out in one behaviour
MaxCategories == 2
MaxTopics == 2
MaxEntries == 2
\* number of add_to_table calls in one behaviour
MaxRawAdds == 1
\* width of the vector column (self.embeddings.dimensions, scaled down)
Dimensions == 2
\* largest `limit` passed to search_entries
MaxLimit == 2
\* length of the candidate list of a question
MaxDocs == 6
\* number of entries of a store whose indices are built
MaxRows == 6

\* the list lengths written into qa_processor.py: search_results[:2],
\* sorted_docs[:5], len(filtered_docs) < 3
FallbackResults == 2
FallbackDocs == 5
MinDocs == 3

\* category / topic names
Names == {"a", "b"}
\* entry titles
Titles == {"t", "u"}
\* entry contents; "" is the falsy content
Contents == {"", "x"}
\* a Python None passed for an optional string argument
None == "<None>"
\* a Python None passed for an optional id argument
NoId == 0

\* ids are uuid4 strings, unique for ever; the k-th id handed out for a table is k
CategoryIds == 1..MaxCategories
TopicIds == 1..MaxTopics
EntryIds == 1..MaxEntries
\* an id that no create hands out
StrayId == MaxCategories + MaxTopics + MaxEntries + 1

----------------------------------------------------------------------------
(* The embedding provider *)

\* [0.0] * self.embeddings.dimensions
ZeroVector == [i \in 1..Dimensions |-> 0]

\* an embedding of the requested width, as the API answers with
OnesVector == [i \in 1..Dimensions |-> 1]

\* what response.data[0].embedding holds when the API answers with another width
ShortVector == [i \in 1..(Dimensions - 1) |-> 1]

\* what one call of client.embeddings.create does: it answers or it throws
ApiOutcomes ==
    {[ok |-> TRUE, vector |-> v] : v \in {OnesVector, ShortVector}}
        \cup {[ok |-> FALSE, vector |-> ZeroVector]}

\* OpenAIEmbeddings.get_embedding: raises without a client, answers zeros on an API error
get_embedding(api) ==
    IF ~client THEN [raises |-> TRUE, vector |-> ZeroVector]
    ELSE IF api.ok THEN [raises |-> FALSE, vector |-> api.vector]
    ELSE [raises |-> FALSE, vector |-> ZeroVector]

\* how the provider call of one operation ended, as recorded in call.embed
EmbedTag(api) ==
    IF ~client THEN "noclient" ELSE IF api.ok THEN "ok" ELSE "apierror"

\* Python truthiness of an optional string
Truthy(s) == s # None /\ s # ""

\* a vector column without a fixed width: pa.list_(pa.float32())
FitsAnyWidth(vector) == TRUE

\* the vector column of the entries schema: pa.list_(pa.float32(), dimensions)
FitsSchema(vector) == Len(vector) = Dimensions

----------------------------------------------------------------------------
(* The outcome record *)

\* no answer: the operation was not a question
NoResult ==
    [answer |-> <<>>, sources |-> <<>>, search_query |-> "", retrieved |-> FALSE,
     generation |-> "none", relevance_threshold |-> 0]

NoCall ==
    [op |-> "init", status |-> "ok", value |-> NoId, embed |-> "none",
     topic_ids |-> {}, entry_ids |-> {},
     filter |-> <<NoId, NoId>>,
     fts |-> "none", ftsRows |-> {}, vecRan |-> FALSE, vecRows |-> {}, rows |-> {},
     column |-> <<"", "">>, built |-> <<>>, attempts |-> 0,
     result |-> NoResult]

\* the call of operation op that returned value: the new id of a create, and
\* NoId for the True of an update or a delete and for the list of a search
Returned(op, value) == [NoCall EXCEPT !.op = op, !.value = value]

\* the call of operation op that raised ValueError: "notfound", "duplicate",
\* or another exception: "raised"
Raised(op, status) == [NoCall EXCEPT !.op = op, !.status = status]

\* number of calls of embeddings.get_embedding the operation made
EmbedCalls(c) == IF c.embed = "none" THEN 0 ELSE 1

----------------------------------------------------------------------------
(* Row predicates read by the operations *)

CategoryRows(category_id) == {c \in categories : c.id = category_id}

TopicRows(topic_id) == {t \in topics : t.id = topic_id}

EntryRows(entry_id) == {e \in entries : e.id = entry_id}

\* topics_table.search().where(category_id = ...)
TopicsOf(category_id) == {t \in topics : t.category_id = category_id}

\* entries_table.search().where(topic_id = ...)
EntriesOf(topic_id) == {e \in entries : e.topic_id = topic_id}

\* len(category) == 0 is false: the declared parent category exists
CategoryFound(category_id) == CategoryRows(category_id) # {}

\* the parent lookup left out
TopicFoundAlways(topic_id) == TRUE

\* len(topic) == 0 is false: the declared parent topic exists
TopicFound(topic_id) == TopicRows(topic_id) # {}

\* name in existing["name"].values, over all categories
CategoryNameTaken(name) == \E c \in categories : c.name = name

\* the name looked up in all topics instead of the topics of the category
TopicNameTakenAnywhere(category_id, name) == \E t \in topics : t.name = name

\* name in existing["name"].values, over the topics of the category
TopicNameTaken(category_id, name) == \E t \in TopicsOf(category_id) : t.name = name

\* title in existing["title"].values, over the entries of the topic
EntryTitleTaken(topic_id, title) == \E e \in EntriesOf(topic_id) : e.title = title

----------------------------------------------------------------------------
(* The indices *)

\* the smallest table create_vector_index builds an index for (line 140)
MinIndexRows == 5

\* TEXT_COLUMNS_FOR_INDEX and VECTOR_COLUMNS_FOR_INDEX, as (table, column) pairs
TextIndices == {<<"entries", "title">>, <<"entries", "content">>}
VectorIndices == {<<"entries", "vector">>}

\* self.db.table_names()
TableNames == {"categories", "topics", "entries"}

\* the columns of the model's rows, out of SCHEMAS
Columns(table_name) ==
    IF table_name = "categories" THEN {"id", "name"}
    ELSE IF table_name = "topics" THEN {"id", "category_id", "name"}
    ELSE {"id", "topic_id", "title", "content", "vector"}

\* table.count_rows()
CountRows(table_name) ==
    IF table_name = "categories" THEN Cardinality(categories)
    ELSE IF table_name = "topics" THEN Cardinality(topics)
    ELSE Cardinality(entries)

\* how a build the storage engine has begun can end
BuildOutcomes == {"ok", "error"}

\* create_inverted_index on the indices idx: what it returns, the number of
\* builds it asked the engine for, and the indices after it.
\* table.create_fts_index(column_name) leaves replace at its default, False:
\* the engine raises for an index that exists
CreateInvertedIndex(idx, table_name, column_name, engine) ==
    IF table_name \notin TableNames
    THEN [returns |-> FALSE, attempts |-> 0, indices |-> idx]
    ELSE IF column_name \notin Columns(table_name)
    THEN [returns |-> FALSE, attempts |-> 0, indices |-> idx]
    ELSE IF <<table_name, column_name>> \in idx \/ engine = "error"
    THEN [returns |-> FALSE, attempts |-> 1, indices |-> idx]
    ELSE [returns |-> TRUE, attempts |-> 1,
          indices |-> idx \cup {<<table_name, column_name>>}]

\* the test of line 140 left out
TooFewRowsNever(table_size) == FALSE

\* line 140: table_size < 5
TooFewRows(table_size) == table_size < MinIndexRows

\* create_vector_index on the indices idx of a table of table_size rows;
\* table.create_index replaces an index that exists
CreateVectorIndex(idx, table_size, table_name, column_name, engine) ==
    IF table_name \notin TableNames
    THEN [returns |-> FALSE, attempts |-> 0, indices |-> idx]
    ELSE IF column_name \notin Columns(table_name)
    THEN [returns |-> FALSE, attempts |-> 0, indices |-> idx]
    ELSE IF TooFewRows(table_size)
    THEN [returns |-> FALSE, attempts |-> 0, indices |-> idx]
    ELSE IF engine = "error"
    THEN [returns |-> FALSE, attempts |-> 1, indices |-> idx]
    ELSE [returns |-> TRUE, attempts |-> 1,
          indices |-> idx \cup {<<table_name, column_name>>}]

\* the outcomes of the builds of one _create_or_update_inverted_indices: of
\* title, of content, of vector
EngineRuns == [1..3 -> BuildOutcomes]

\* _create_or_update_inverted_indices: the text columns of the table, then its
\* vector columns; built holds what the create steps returned, in order
CreateOrUpdate(idx, table_size, table_name, engine) ==
    IF table_name # "entries"
    THEN [built |-> <<>>, attempts |-> 0, indices |-> idx]
    ELSE LET title == CreateInvertedIndex(idx, table_name, "title", engine[1])
             content == CreateInvertedIndex(title.indices, table_name, "content",
                                            engine[2])
             vector == CreateVectorIndex(content.indices, table_size, table_name,
                                         "vector", engine[3])
         IN  [built |-> <<title.returns, content.returns, vector.returns>>,
              attempts |-> title.attempts + content.attempts + vector.attempts,
              indices |-> vector.indices]

\* the indices a write can leave: those of its closing
\* _create_or_update_inverted_indices, for every way the builds can end
Reindexed(table_name, table_size) ==
    {CreateOrUpdate(indices, table_size, table_name, engine).indices :
        engine \in EngineRuns}

\* the threads that run store operations step by step
Writers == {1, 2}

\* a thread that runs no store operation: the operation, the statement it is
\* at, its arguments and locals, whether a storage call of it has failed,
\* whether another thread was between its check and its write at the same
\* time, what it returned or raised, and the message the page shows for it
NoActivation ==
    [op |-> "none", pc |-> "idle", id |-> NoId, name |-> None, row |-> <<>>,
     topic_ids |-> {}, entry_ids |-> {}, found |-> [topic_ids |-> {}, entry_ids |-> {}],
     failed |-> FALSE, overlapped |-> FALSE, returned |-> "none", message |-> "none"]

NoWriters == [w \in Writers |-> NoActivation]

\* no question has been asked: nothing was retrieved, no provider answers
NoRequest ==
    [docs |-> <<>>, kb_results |-> <<>>, rewrite_ok |-> FALSE, generation_ok |-> FALSE]

\* _process_with_qa has not been called: where the caller is, where the worker
\* thread is, whether join(timeout) ran into its timeout, the result_container
\* of the call, and what the call returned
NoProcess ==
    [pc |-> "idle", qa_thread |-> "none", timed_out |-> FALSE,
     result_container |-> [answer |-> NoResult, error |-> None,
                           preferences_applied |-> FALSE],
     returned |-> "none", answer |-> NoResult]

\* st.session_state without an error entry
NoSession == [error |-> None]

\* no answer function is running: which one runs, the stage it is at, its
\* locals, and the number of answer-generation completions it has asked for
NoPipeline ==
    [op |-> "none", stage |-> "Idle", relevance_threshold |-> 0,
     search_query |-> "", search_results |-> <<>>, filtered |-> <<>>,
     completions |-> 0, result |-> NoResult]

----------------------------------------------------------------------------
Init ==
    /\ categories = {}
    /\ topics = {}
    /\ entries = {}
    /\ nextId = [categories |-> 1, topics |-> 1, entries |-> 1]
    /\ client \in BOOLEAN
    /\ rawAdds = 0
    /\ call = NoCall
    /\ request = NoRequest
    /\ process = NoProcess
    /\ session_state = NoSession
    /\ pipeline = NoPipeline
    /\ indices = TextIndices
    /\ writers = NoWriters

(* Categories *)

create_category(name) ==
    /\ nextId.categories <= MaxCategories
    /\ UNCHANGED <<topics, entries, client, rawAdds, indices, qa>>
    /\ IF CategoryNameTaken(name)
       THEN /\ call' = Raised("create_category", "duplicate")
            /\ UNCHANGED <<categories, nextId>>
       ELSE /\ categories' = categories \cup {[id |-> nextId.categories, name |-> name]}
            /\ nextId' = [nextId EXCEPT !.categories = @ + 1]
            /\ call' = Returned("create_category", nextId.categories)

update_category(category_id, name) ==
    /\ UNCHANGED <<topics, entries, nextId, client, rawAdds, indices, qa>>
    /\ IF CategoryRows(category_id) = {}
       THEN /\ call' = Raised("update_category", "notfound")
            /\ UNCHANGED categories
       ELSE \E current \in CategoryRows(category_id) :
            LET updated_name == IF Truthy(name) THEN name ELSE current.name
            IN  /\ categories' = (categories \ CategoryRows(category_id))
                                    \cup {[id |-> category_id, name |-> updated_name]}
                /\ call' = Returned("update_category", NoId)

\* a cascade that forgets the entries loop
delete_category_keeps_entries(category_id) ==
    LET topic_ids == {t.id : t \in TopicsOf(category_id)}
    IN  /\ topics' = {t \in topics : t.id \notin topic_ids}
        /\ categories' = {c \in categories : c.id # category_id}
        /\ call' = [Returned("delete_category", NoId) EXCEPT !.topic_ids = topic_ids]
        /\ UNCHANGED <<entries, nextId, client, rawAdds, indices, qa>>

delete_category(category_id) ==
    LET topic_ids == {t.id : t \in TopicsOf(category_id)}
        entry_ids == {e.id : e \in {x \in entries : x.topic_id \in topic_ids}}
    IN  /\ entries' = {e \in entries : e.id \notin entry_ids}
        /\ topics' = {t \in topics : t.id \notin topic_ids}
        /\ categories' = {c \in categories : c.id # category_id}
        /\ call' = [Returned("delete_category", NoId) EXCEPT
                        !.topic_ids = topic_ids, !.entry_ids = entry_ids]
        /\ UNCHANGED <<nextId, client, rawAdds, indices, qa>>

(* Topics *)

create_topic(category_id, name) ==
    /\ nextId.topics <= MaxTopics
    /\ UNCHANGED <<categories, entries, client, rawAdds, indices, qa>>
    /\ IF ~CategoryFound(category_id)
       THEN /\ call' = Raised("create_topic", "notfound")
            /\ UNCHANGED <<topics, nextId>>
       ELSE IF TopicNameTaken(category_id, name)
       THEN /\ call' = Raised("create_topic", "duplicate")
            /\ UNCHANGED <<topics, nextId>>
       ELSE /\ topics' = topics \cup
                    {[id |-> nextId.topics, category_id |-> category_id, name |-> name]}
            /\ nextId' = [nextId EXCEPT !.topics = @ + 1]
            /\ call' = Returned("create_topic", nextId.topics)

update_topic(topic_id, name) ==
    /\ UNCHANGED <<categories, entries, nextId, client, rawAdds, indices, qa>>
    /\ IF TopicRows(topic_id) = {}
       THEN /\ call' = Raised("update_topic", "notfound")
            /\ UNCHANGED topics
       ELSE \E current \in TopicRows(topic_id) :
            LET updated_name == IF Truthy(name) THEN name ELSE current.name
            IN  /\ topics' = (topics \ TopicRows(topic_id))
                                \cup {[id |-> topic_id,
                                       category_id |-> current.category_id,
                                       name |-> updated_name]}
                /\ call' = Returned("update_topic", NoId)

delete_topic(topic_id) ==
    LET entry_ids == {e.id : e \in EntriesOf(topic_id)}
    IN  /\ entries' = {e \in entries : e.id \notin entry_ids}
        /\ topics' = {t \in topics : t.id # topic_id}
        /\ call' = [Returned("delete_topic", NoId) EXCEPT !.entry_ids = entry_ids]
        /\ UNCHANGED <<categories, nextId, client, rawAdds, indices, qa>>

(* Entries *)

\* create_entry without the try / except around the provider call
create_entry_vector_uncaught(generate_embedding, content, api) ==
    IF generate_embedding /\ Truthy(content)
    THEN LET r == get_embedding(api)
         IN  [raises |-> r.raises, vector |-> r.vector, embed |-> EmbedTag(api)]
    ELSE [raises |-> FALSE, vector |-> ZeroVector, embed |-> "none"]

\* lines 390-401: the vector create_entry stores, and how the provider call ended
create_entry_vector(generate_embedding, content, api) ==
    IF generate_embedding /\ Truthy(content)
    THEN LET r == get_embedding(api)
         IN  IF r.raises
             THEN [raises |-> FALSE, vector |-> ZeroVector, embed |-> EmbedTag(api)]
             ELSE [raises |-> FALSE, vector |-> r.vector, embed |-> EmbedTag(api)]
    ELSE [raises |-> FALSE, vector |-> ZeroVector, embed |-> "none"]

create_entry(topic_id, title, content, generate_embedding, api) ==
    /\ nextId.entries <= MaxEntries
    /\ UNCHANGED <<categories, topics, client, rawAdds, qa>>
    /\ IF ~TopicFound(topic_id)
       THEN /\ call' = Raised("create_entry", "notfound")
            /\ UNCHANGED <<entries, nextId, indices>>
       ELSE IF EntryTitleTaken(topic_id, title)
       THEN /\ call' = Raised("create_entry", "duplicate")
            /\ UNCHANGED <<entries, nextId, indices>>
       ELSE LET v == create_entry_vector(generate_embedding, content, api)
            IN  IF v.raises \/ ~FitsSchema(v.vector)
                THEN /\ call' = [Raised("create_entry", "raised") EXCEPT
                                    !.embed = v.embed]
                     /\ UNCHANGED <<entries, nextId, indices>>
                ELSE /\ entries' = entries \cup
                            {[id |-> nextId.entries, topic_id |-> topic_id, title |-> title,
                              content |-> content, vector |-> v.vector]}
                     /\ indices' \in Reindexed("entries", Cardinality(entries'))
                     /\ nextId' = [nextId EXCEPT !.entries = @ + 1]
                     /\ call' = [Returned("create_entry", nextId.entries) EXCEPT
                                    !.embed = v.embed]

\* update_entry without the try / except around the provider call
update_entry_vector_uncaught(current, content, generate_embedding, api) ==
    IF generate_embedding /\ content # None
    THEN LET r == get_embedding(api)
         IN  [raises |-> r.raises, vector |-> r.vector, embed |-> EmbedTag(api)]
    ELSE [raises |-> FALSE, vector |-> current.vector, embed |-> "none"]

\* lines 473-489: the vector update_entry stores, and how the provider call ended
update_entry_vector(current, content, generate_embedding, api) ==
    IF generate_embedding /\ content # None
    THEN LET r == get_embedding(api)
         IN  IF r.raises
             THEN [raises |-> FALSE, vector |-> current.vector, embed |-> EmbedTag(api)]
             ELSE [raises |-> FALSE, vector |-> r.vector, embed |-> EmbedTag(api)]
    ELSE [raises |-> FALSE, vector |-> current.vector, embed |-> "none"]

update_entry(entry_id, title, content, generate_embedding, api) ==
    /\ UNCHANGED <<categories, topics, nextId, client, rawAdds, qa>>
    /\ IF EntryRows(entry_id) = {}
       THEN /\ call' = Raised("update_entry", "notfound")
            /\ UNCHANGED <<entries, indices>>
       ELSE \E current \in EntryRows(entry_id) :
            LET updated_title == IF Truthy(title) THEN title ELSE current.title
                updated_content == IF content # None THEN content ELSE current.content
                v == update_entry_vector(current, content, generate_embedding, api)
            IN  IF v.raises \/ ~FitsSchema(v.vector)
                THEN /\ call' = [Raised("update_entry", "raised") EXCEPT
                                    !.embed = v.embed]
                     /\ UNCHANGED <<entries, indices>>
                ELSE /\ entries' = (entries \ EntryRows(entry_id)) \cup
                            {[id |-> entry_id, topic_id |-> current.topic_id,
                              title |-> updated_title, content |-> updated_content,
                              vector |-> v.vector]}
                     /\ indices' \in Reindexed("entries", Cardinality(entries'))
                     /\ call' = [Returned("update_entry", NoId) EXCEPT
                                    !.embed = v.embed]

delete_entry(entry_id) ==
    /\ entries' = {e \in entries : e.id # entry_id}
    /\ call' = Returned("delete_entry", NoId)
    /\ UNCHANGED <<categories, topics, nextId, client, rawAdds, indices, qa>>

(* Raw insertion *)

\* the vectors the fixed-width vector column of the entries table accepts
StoredVectors == {OnesVector, ZeroVector}

\* the one-row batches a caller hands to add_to_table, by table
RawRows(table_name) ==
    IF table_name = "categories"
    THEN {[id |-> nextId.categories, name |-> n] : n \in Names}
    ELSE IF table_name = "topics"
    THEN {[id |-> nextId.topics, category_id |-> c, name |-> n] :
            c \in (1..(nextId.categories - 1)) \cup {StrayId}, n \in Names}
    ELSE {[id |-> nextId.entries, topic_id |-> t, title |-> "t", content |-> "x",
           vector |-> ZeroVector] :
            t \in (1..(nextId.topics - 1)) \cup {StrayId}}

\* the number of ids a table can still be given
IdsLeft(table_name) ==
    IF table_name = "categories" THEN MaxCategories + 1 - nextId.categories
    ELSE IF table_name = "topics" THEN MaxTopics + 1 - nextId.topics
    ELSE MaxEntries + 1 - nextId.entries

add_to_table(table_name, row) ==
    /\ rawAdds < MaxRawAdds
    /\ IdsLeft(table_name) > 0
    /\ rawAdds' = rawAdds + 1
    /\ nextId' = [nextId EXCEPT ![table_name] = @ + 1]
    /\ categories' = IF table_name = "categories" THEN categories \cup {row} ELSE categories
    /\ topics' = IF table_name = "topics" THEN topics \cup {row} ELSE topics
    /\ entries' = IF table_name = "entries" THEN entries \cup {row} ELSE entries
    /\ indices' \in Reindexed(table_name, IF table_name = "entries"
                                           THEN Cardinality(entries') ELSE 0)
    /\ call' = Returned("add_to_table", row.id)
    /\ UNCHANGED <<client, qa>>

----------------------------------------------------------------------------
(* The cascades, statement by statement *)

\* every storage call of a step can raise; fails says that this one does

\* what the steps of a writer leave alone
still == <<nextId, client, rawAdds, call, request, process, session_state,
           pipeline, indices>>

\* kb_manager_st.py, the 'Yes, Delete' handlers: a success message when the
\* delete returned True, nothing in an else branch; the except branch sets the
\* error message, and the deletes raise nothing
Message(returned) == IF returned = "True" THEN "success" ELSE "none"

\* the return of a cascade and what the page makes of it
Return(activation, returned) ==
    [activation EXCEPT !.pc = "idle", !.returned = returned,
                       !.message = Message(returned)]

\* the except branch of a cascade: it returns False
Failed(activation) == Return([activation EXCEPT !.failed = TRUE], "False")

\* topics before entries
LoopTopicsFirst(op, entry_ids, topic_ids) ==
    IF topic_ids # {} THEN "topics"
    ELSE IF entry_ids # {} THEN "entries"
    ELSE IF op = "delete_category" THEN "category"
    ELSE "return"

\* the statement a cascade is at: the entries loop, then the topics loop (the
\* one topics_table.delete of delete_topic), then the category row
Loop(op, entry_ids, topic_ids) ==
    IF entry_ids # {} THEN "entries"
    ELSE IF topic_ids # {} THEN "topics"
    ELSE IF op = "delete_category" THEN "category"
    ELSE "return"

\* the cascade goes on with what is left to delete, or returns True
Continue(activation, entry_ids, topic_ids) ==
    LET pc == Loop(activation.op, entry_ids, topic_ids)
        left == [activation EXCEPT !.entry_ids = entry_ids, !.topic_ids = topic_ids]
    IN  IF pc = "return" THEN Return(left, "True") ELSE [left EXCEPT !.pc = pc]

\* lines 270-278: the topics of the category and their entries are read
delete_category_begin(w, category_id, fails) ==
    /\ writers[w].pc = "idle"
    /\ LET topic_ids == {t.id : t \in TopicsOf(category_id)}
           entry_ids == {e.id : e \in {x \in entries : x.topic_id \in topic_ids}}
           begun == [NoActivation EXCEPT !.op = "delete_category", !.id = category_id]
           read == [begun EXCEPT
                        !.found = [topic_ids |-> topic_ids, entry_ids |-> entry_ids]]
       IN  writers' = [writers EXCEPT ![w] =
                        IF fails THEN Failed(begun)
                        ELSE Continue(read, entry_ids, topic_ids)]
    /\ UNCHANGED <<categories, topics, entries, still>>

\* lines 361-363: the entries of the topic are read
delete_topic_begin(w, topic_id, fails) ==
    /\ writers[w].pc = "idle"
    /\ LET entry_ids == {e.id : e \in EntriesOf(topic_id)}
           begun == [NoActivation EXCEPT !.op = "delete_topic", !.id = topic_id]
           read == [begun EXCEPT
                        !.found = [topic_ids |-> {topic_id}, entry_ids |-> entry_ids]]
       IN  writers' = [writers EXCEPT ![w] =
                        IF fails THEN Failed(begun)
                        ELSE Continue(read, entry_ids, {topic_id})]
    /\ UNCHANGED <<categories, topics, entries, still>>

\* lines 280-281 and 364-365: one entries_table.delete of the loop
cascade_delete_entry(w, fails) ==
    /\ writers[w].pc = "entries"
    /\ \E entry_id \in writers[w].entry_ids :
        IF fails
        THEN /\ writers' = [writers EXCEPT ![w] = Failed(@)]
             /\ UNCHANGED entries
        ELSE /\ entries' = {e \in entries : e.id # entry_id}
             /\ writers' = [writers EXCEPT ![w] =
                    Continue(@, @.entry_ids \ {entry_id}, @.topic_ids)]
    /\ UNCHANGED <<categories, topics, still>>

\* lines 282-283 and 367-368: one topics_table.delete
cascade_delete_topic(w, fails) ==
    /\ writers[w].pc = "topics"
    /\ \E topic_id \in writers[w].topic_ids :
        IF fails
        THEN /\ writers' = [writers EXCEPT ![w] = Failed(@)]
             /\ UNCHANGED topics
        ELSE /\ topics' = {t \in topics : t.id # topic_id}
             /\ writers' = [writers EXCEPT ![w] =
                    Continue(@, @.entry_ids, @.topic_ids \ {topic_id})]
    /\ UNCHANGED <<categories, entries, still>>

\* lines 285-287: the category row is deleted and True returned
cascade_delete_category(w, fails) ==
    /\ writers[w].pc = "category"
    /\ IF fails
       THEN /\ writers' = [writers EXCEPT ![w] = Failed(@)]
            /\ UNCHANGED categories
       ELSE /\ categories' = {c \in categories : c.id # writers[w].id}
            /\ writers' = [writers EXCEPT ![w] = Return(@, "True")]
    /\ UNCHANGED <<topics, entries, still>>

(* The creates of two writers, the reads and the insert apart *)

\* the table a create writes to
TableOf(op) ==
    IF op = "create_category" THEN "categories"
    ELSE IF op = "create_topic" THEN "topics"
    ELSE "entries"

\* a create whose reads look for the parent and never for the name
CheckedParentOnly(op, parent_id, name) ==
    IF op = "create_category" THEN "insert"
    ELSE IF op = "create_topic"
    THEN IF ~CategoryFound(parent_id) THEN "notfound" ELSE "insert"
    ELSE IF ~TopicFound(parent_id) THEN "notfound" ELSE "insert"

\* lines 210-213, 295-303 and 378-386: what the reads of a create decide
Checked(op, parent_id, name) ==
    IF op = "create_category"
    THEN IF CategoryNameTaken(name) THEN "duplicate" ELSE "insert"
    ELSE IF op = "create_topic"
    THEN IF ~CategoryFound(parent_id) THEN "notfound"
         ELSE IF TopicNameTaken(parent_id, name) THEN "duplicate"
         ELSE "insert"
    ELSE IF ~TopicFound(parent_id) THEN "notfound"
         ELSE IF EntryTitleTaken(parent_id, name) THEN "duplicate"
         ELSE "insert"

\* the writers that have read and not yet inserted
Inserting == {w \in Writers : writers[w].pc = "insert"}

\* the ids a table can still hand out, those of the waiting inserts counted
Room(op) ==
    IdsLeft(TableOf(op)) >
        Cardinality({w \in Inserting : writers[w].op = op})

\* the reads of a create: it raises, or goes on to its insert with its
\* arguments; no lock is taken, and overlapped records that another writer is
\* between its own reads and its insert
create_check(w, op, parent_id, name) ==
    /\ writers[w].pc = "idle"
    /\ Room(op)
    /\ LET checked == Checked(op, parent_id, name)
       IN  writers' = [v \in Writers |->
                IF v = w
                THEN IF checked = "insert"
                     THEN [NoActivation EXCEPT !.op = op, !.pc = "insert",
                                               !.id = parent_id, !.name = name,
                                               !.overlapped = Inserting # {}]
                     ELSE [NoActivation EXCEPT !.returned = checked]
                ELSE IF checked = "insert" /\ v \in Inserting
                THEN [writers[v] EXCEPT !.overlapped = TRUE]
                ELSE writers[v]]
    /\ UNCHANGED <<categories, topics, entries, still>>

\* the row a create builds, under a fresh id
NewRow(activation) ==
    IF activation.op = "create_category"
    THEN [id |-> nextId.categories, name |-> activation.name]
    ELSE IF activation.op = "create_topic"
    THEN [id |-> nextId.topics, category_id |-> activation.id,
          name |-> activation.name]
    ELSE [id |-> nextId.entries, topic_id |-> activation.id,
          title |-> activation.name, content |-> "x", vector |-> ZeroVector]

\* lines 226-227, 316-317 and 432-436: table.add and the return of the id
create_insert(w) ==
    /\ writers[w].pc = "insert"
    /\ LET activation == writers[w]
           table_name == TableOf(activation.op)
           row == NewRow(activation)
       IN  /\ categories' = IF table_name = "categories"
                            THEN categories \cup {row} ELSE categories
           /\ topics' = IF table_name = "topics" THEN topics \cup {row} ELSE topics
           /\ entries' = IF table_name = "entries" THEN entries \cup {row} ELSE entries
           /\ indices' \in Reindexed(table_name, IF table_name = "entries"
                                                  THEN Cardinality(entries') ELSE 0)
           /\ nextId' = [nextId EXCEPT ![table_name] = @ + 1]
           /\ writers' = [writers EXCEPT ![w] =
                    [NoActivation EXCEPT !.returned = "id"]]
    /\ UNCHANGED <<client, rawAdds, call, request, process, session_state, pipeline>>

(* The updates, statement by statement *)

Updates == {"update_category", "update_topic", "update_entry"}

\* search().where(id = ...) on the table of the update
RowsOf(op, id) ==
    IF op = "update_category" THEN CategoryRows(id)
    ELSE IF op = "update_topic" THEN TopicRows(id)
    ELSE EntryRows(id)

\* the row an update builds of the current one: the id and the parent are the
\* current ones, the name is the new one unless it is empty
UpdatedRow(op, current, name, vector) ==
    IF op = "update_category"
    THEN [id |-> current.id, name |-> IF Truthy(name) THEN name ELSE current.name]
    ELSE IF op = "update_topic"
    THEN [id |-> current.id, category_id |-> current.category_id,
          name |-> IF Truthy(name) THEN name ELSE current.name]
    ELSE [id |-> current.id, topic_id |-> current.topic_id,
          title |-> IF Truthy(name) THEN name ELSE current.title,
          content |-> current.content, vector |-> vector]

\* an update raises: ValueError of the lookup, or what a storage call raised
RaisedIn(activation, returned) ==
    [activation EXCEPT !.pc = "idle", !.returned = returned,
                       !.failed = returned # "notfound"]

\* lines 245-260, 335-352 and 454-516: the row is looked up and the new row
\* built; content is not given, so update_entry keeps the current vector, and
\* from_arrays raises for a vector of another width before anything is deleted
update_begin(w, op, id, name, api) ==
    /\ writers[w].pc = "idle"
    /\ LET begun == [NoActivation EXCEPT !.op = op, !.id = id]
       IN  IF RowsOf(op, id) = {}
           THEN writers' = [writers EXCEPT ![w] = RaisedIn(begun, "notfound")]
           ELSE \E current \in RowsOf(op, id) :
                LET vector == IF op = "update_entry"
                              THEN update_entry_vector(current, None, TRUE,
                                                       api).vector
                              ELSE <<>>
                    read == [begun EXCEPT !.row = <<current>>]
                IN  writers' = [writers EXCEPT ![w] =
                        IF op = "update_entry" /\ ~FitsSchema(vector)
                        THEN RaisedIn(read, "raised")
                        ELSE [read EXCEPT
                                !.pc = "delete",
                                !.row = <<current,
                                          UpdatedRow(op, current, name, vector)>>]]
    /\ UNCHANGED <<categories, topics, entries, still>>

\* lines 261, 354 and 518: table.delete(id = ...)
update_delete(w, fails) ==
    /\ writers[w].pc = "delete"
    /\ LET activation == writers[w]
           gone == RowsOf(activation.op, activation.id)
       IN  IF fails
           THEN /\ writers' = [writers EXCEPT ![w] = RaisedIn(activation, "raised")]
                /\ UNCHANGED <<categories, topics, entries>>
           ELSE /\ categories' = IF activation.op = "update_category"
                                 THEN categories \ gone ELSE categories
                /\ topics' = IF activation.op = "update_topic"
                             THEN topics \ gone ELSE topics
                /\ entries' = IF activation.op = "update_entry"
                              THEN entries \ gone ELSE entries
                /\ writers' = [writers EXCEPT ![w] = [activation EXCEPT !.pc = "add"]]
    /\ UNCHANGED still

\* lines 262-263, 355-356 and 519-523: table.add of the new row, for entries
\* the text indices, and True
update_add(w, fails) ==
    /\ writers[w].pc = "add"
    /\ LET activation == writers[w]
           row == activation.row[2]
       IN  IF fails
           THEN /\ writers' = [writers EXCEPT ![w] = RaisedIn(activation, "raised")]
                /\ UNCHANGED <<categories, topics, entries, indices>>
           ELSE /\ categories' = IF activation.op = "update_category"
                                 THEN categories \cup {row} ELSE categories
                /\ topics' = IF activation.op = "update_topic"
                             THEN topics \cup {row} ELSE topics
                /\ entries' = IF activation.op = "update_entry"
                              THEN entries \cup {row} ELSE entries
                /\ indices' \in IF activation.op = "update_entry"
                                THEN Reindexed("entries", Cardinality(entries'))
                                ELSE {indices}
                /\ writers' = [writers EXCEPT ![w] =
                        [activation EXCEPT !.pc = "idle", !.returned = "True"]]
    /\ UNCHANGED <<nextId, client, rawAdds, call, request, process, session_state,
                   pipeline>>

(* Index building *)

create_inverted_index(table_name, column_name, engine) ==
    LET r == CreateInvertedIndex(indices, table_name, column_name, engine)
    IN  /\ indices' = r.indices
        /\ call' = [Returned("create_inverted_index", NoId) EXCEPT
                        !.column = <<table_name, column_name>>,
                        !.built = <<r.returns>>, !.attempts = r.attempts]
        /\ UNCHANGED <<categories, topics, entries, nextId, client, rawAdds, qa>>

create_vector_index(table_name, column_name, engine) ==
    LET r == CreateVectorIndex(indices, CountRows(table_name), table_name,
                               column_name, engine)
    IN  /\ indices' = r.indices
        /\ call' = [Returned("create_vector_index", NoId) EXCEPT
                        !.column = <<table_name, column_name>>,
                        !.built = <<r.returns>>, !.attempts = r.attempts]
        /\ UNCHANGED <<categories, topics, entries, nextId, client, rawAdds, qa>>

_create_or_update_inverted_indices(table_name, engine) ==
    LET r == CreateOrUpdate(indices, CountRows(table_name), table_name, engine)
    IN  /\ indices' = r.indices
        /\ call' = [Returned("_create_or_update_inverted_indices", NoId) EXCEPT
                        !.column = <<table_name, "">>,
                        !.built = r.built, !.attempts = r.attempts]
        /\ UNCHANGED <<categories, topics, entries, nextId, client, rawAdds, qa>>

----------------------------------------------------------------------------
(* Search *)

\* the search queries: a word of a title, a word of a content
Queries == {"t", "x"}

\* the rows the text index matches a query with (title and content are indexed)
Matches(query) == {e \in entries : e.title = query \/ e.content = query}

\* .limit(limit): the limit best rows of a candidate set, whatever the ranking is
TopK(candidates, limit) ==
    {S \in SUBSET candidates :
        Cardinality(S) = IF Cardinality(candidates) < limit
                         THEN Cardinality(candidates) ELSE limit}

\* how the full-text path can end: no usable index, an error in the search, or rows
FtsModes == {"noindex", "error", "ok"}

\* search_table_fulltext: the rows it can return for each way it can end
search_table_fulltext(mode, query, limit) ==
    IF mode = "ok" THEN TopK(Matches(query), limit) ELSE {{}}

\* lines 625-633 and 677-691: the topic and category names joined to one row;
\* .iloc[0] of an empty selection raises IndexError
Enrich(e) ==
    IF topics = {}
    THEN [raises |-> FALSE,
          row |-> [id |-> e.id, topic_id |-> e.topic_id, topic_name |-> "Unknown",
                   category_id |-> NoId, category_name |-> "Unknown"]]
    ELSE IF TopicRows(e.topic_id) = {}
    THEN [raises |-> TRUE,
          row |-> [id |-> e.id, topic_id |-> e.topic_id, topic_name |-> "Unknown",
                   category_id |-> NoId, category_name |-> "Unknown"]]
    ELSE LET topic_info == CHOOSE t \in TopicRows(e.topic_id) : TRUE
         IN  IF categories = {}
             THEN [raises |-> FALSE,
                   row |-> [id |-> e.id, topic_id |-> e.topic_id,
                            topic_name |-> topic_info.name,
                            category_id |-> topic_info.category_id,
                            category_name |-> "Unknown"]]
             ELSE IF CategoryRows(topic_info.category_id) = {}
             THEN [raises |-> TRUE,
                   row |-> [id |-> e.id, topic_id |-> e.topic_id,
                            topic_name |-> topic_info.name,
                            category_id |-> topic_info.category_id,
                            category_name |-> "Unknown"]]
             ELSE LET category_info ==
                        CHOOSE c \in CategoryRows(topic_info.category_id) : TRUE
                  IN  [raises |-> FALSE,
                       row |-> [id |-> e.id, topic_id |-> e.topic_id,
                                topic_name |-> topic_info.name,
                                category_id |-> topic_info.category_id,
                                category_name |-> category_info.name]]

\* the formatted_results loop over the selected rows; an exception in it is
\* caught by the handler of search_entries, which returns []
Formatted(selected) ==
    IF \E e \in selected : Enrich(e).raises
    THEN [status |-> "caught", rows |-> {}]
    ELSE [status |-> "ok", rows |-> {Enrich(e).row : e \in selected}]

\* lines 653-663: the rows the where clause of the vector search lets through
Filtered(category_id, topic_id) ==
    IF topic_id # NoId
    THEN {e \in entries : e.topic_id = topic_id}
    ELSE IF category_id # NoId
    THEN LET topic_ids == {t.id : t \in TopicsOf(category_id)}
         IN  IF topic_ids # {}
             THEN {e \in entries : e.topic_id \in topic_ids}
             ELSE entries
    ELSE entries

\* line 613 without the test of the filters
UseFulltextUnfiltered(fulltext_results, category_id, topic_id) ==
    fulltext_results # {}

\* line 613: the full-text rows are the answer
UseFulltext(fulltext_results, category_id, topic_id) ==
    fulltext_results # {} /\ ~(category_id # NoId \/ topic_id # NoId)

search_entries(query, limit, category_id, topic_id, mode, api) ==
    /\ UNCHANGED <<categories, topics, entries, nextId, client, rawAdds, indices, qa>>
    /\ \E fulltext_results \in search_table_fulltext(mode, query, limit) :
        LET base == [Returned("search_entries", NoId) EXCEPT
                        !.filter = <<category_id, topic_id>>,
                        !.fts = mode, !.ftsRows = fulltext_results]
        IN  IF UseFulltext(fulltext_results, category_id, topic_id)
            THEN LET f == Formatted(fulltext_results)
                 IN  call' = [base EXCEPT !.status = f.status, !.rows = f.rows]
            ELSE LET r == get_embedding(api)
                     embedded == [base EXCEPT !.embed = EmbedTag(api)]
                 IN  IF r.raises
                     THEN call' = [embedded EXCEPT !.status = "caught"]
                     ELSE IF ~FitsSchema(r.vector)
                     THEN call' = [embedded EXCEPT !.status = "caught", !.vecRan = TRUE]
                     ELSE \E results \in TopK(Filtered(category_id, topic_id), limit) :
                          LET f == Formatted(results)
                          IN  call' = [embedded EXCEPT !.vecRan = TRUE,
                                                       !.vecRows = results,
                                                       !.status = f.status,
                                                       !.rows = f.rows]

\* the hierarchy filters of a search: none, a category, or a topic
SearchFilters ==
    {<<NoId, NoId>>} \cup {<<c, NoId>> : c \in CategoryIds}
        \cup {<<NoId, t>> : t \in TopicIds}

----------------------------------------------------------------------------
(* Question answering: QAProcessor (src/tools/qa_processor.py) *)

\* the relevance scores of the candidates (lower is more relevant) and the
\* relevance thresholds of a request, in tenths
Scores == {2, 4, 8}
Thresholds == {3, 5}

\* the user's question, and what the rewriting completion answers with
Question == "Q"
Rewritten == "R"

\* the candidate lists of length n: the i-th candidate has the text i
DocListsOf(n) ==
    {[i \in 1..n |-> [text |-> ToString(i), score |-> f[i]]] : f \in [1..n -> Scores]}

\* the candidate lists a retrieval can hand to the synthesizer
DocLists == UNION {DocListsOf(n) : n \in 0..MaxDocs}

\* seq[:n]
Take(seq, n) == SubSeq(seq, 1, IF n < Len(seq) THEN n ELSE Len(seq))

\* [doc for doc in docs if doc['score'] < relevance_threshold]
Passing(docs, relevance_threshold) ==
    SelectSeq(docs, LAMBDA doc : doc.score < relevance_threshold)

\* one step of sorted(): doc goes behind the members that are not greater
Insert(sorted, doc) ==
    LET k == Cardinality({i \in 1..Len(sorted) : sorted[i].score <= doc.score})
    IN  SubSeq(sorted, 1, k) \o <<doc>> \o SubSeq(sorted, k + 1, Len(sorted))

\* sorted(docs, key=lambda x: x.get('score', 2.0)): ascending and stable
RECURSIVE SortedByScore(_)
SortedByScore(docs) ==
    IF docs = <<>> THEN <<>>
    ELSE Insert(SortedByScore(SubSeq(docs, 1, Len(docs) - 1)), docs[Len(docs)])

\* [doc for doc in docs if doc not in filtered_docs]
Remaining(docs, filtered_docs) ==
    SelectSeq(docs, LAMBDA doc : ~\E i \in 1..Len(filtered_docs) : filtered_docs[i] = doc)

\* the sources list built beside the context
Sources(filtered) ==
    [i \in 1..Len(filtered) |->
        [text |-> filtered[i].text, relevance_score |-> filtered[i].score]]

\* the answers with a fixed text
NoInformationKb ==
    <<"I couldn't find any relevant information in the knowledge base to answer your question.">>
NoInformation ==
    <<"I couldn't find any relevant information to answer your question.">>
Generated == <<"generated">>
MostRelevant == "Here is the most relevant information I found:"
ApiError == "API Error: failed"
ErrorOccurred == "An error occurred while processing your question: "

\* the handler at the end of both answer functions
ErrorResult(message, search_query, retrieved, generation) ==
    [NoResult EXCEPT !.answer = <<ErrorOccurred, message>>,
                     !.search_query = search_query, !.retrieved = retrieved,
                     !.generation = generation]

\* a retrieval check that lets an empty candidate list through
NoCandidatesIgnored(search_results) == FALSE

\* 'if not search_results' (line 183), 'if not docs' (line 297)
NoCandidates(search_results) == search_results = <<>>

\* the answer-generation step of both functions: the completion, its except
\* branch, and the branch without a client; filtered[0] of an empty list raises
Generate(filtered) ==
    IF client
    THEN IF request.generation_ok
         THEN [raises |-> FALSE, answer |-> Generated, generation |-> "ok"]
         ELSE IF filtered = <<>>
         THEN [raises |-> TRUE, answer |-> <<>>, generation |-> "error"]
         ELSE [raises |-> FALSE,
               answer |-> <<ApiError, MostRelevant, filtered[1].text>>,
               generation |-> "error"]
    ELSE IF filtered = <<>>
    THEN [raises |-> TRUE, answer |-> <<>>, generation |-> "none"]
    ELSE [raises |-> FALSE, answer |-> <<MostRelevant, filtered[1].text>>,
          generation |-> "none"]

\* generate_search_query that lets the exception of the completion escape
generate_search_query_uncaught(user_question) ==
    IF ~client THEN [raises |-> FALSE, query |-> user_question]
    ELSE IF request.rewrite_ok THEN [raises |-> FALSE, query |-> Rewritten]
    ELSE [raises |-> TRUE, query |-> user_question]

\* generate_search_query: the question itself without a client or on an error
generate_search_query(user_question) ==
    IF ~client THEN [raises |-> FALSE, query |-> user_question]
    ELSE IF request.rewrite_ok THEN [raises |-> FALSE, query |-> Rewritten]
    ELSE [raises |-> FALSE, query |-> user_question]

\* lines 190-202 of answer_question: the filter and its fallback
filtered_results(search_results, relevance_threshold) ==
    LET passing == Passing(search_results, relevance_threshold)
    IN  IF passing = <<>> /\ search_results # <<>>
        THEN Take(search_results, FallbackResults)
        ELSE passing

\* answer_question; request.docs is what search_entries returns for the search
\* query and request.kb_results what the documents table returns.  Line 210 is
\* the expression statement 's', a name that is not defined: it raises
\* NameError, so the lines after it never run
AnswerQuestion(user_question, relevance_threshold) ==
    LET q == generate_search_query(user_question)
    IN  IF q.raises
        THEN ErrorResult("completion failed", "", FALSE, "none")
        ELSE LET entry_results == request.docs
                 search_results == IF entry_results # <<>> THEN entry_results
                                   ELSE request.kb_results
                 found == [NoResult EXCEPT !.answer = NoInformationKb,
                                           !.search_query = q.query,
                                           !.retrieved = TRUE]
             IN  IF NoCandidates(search_results)
                 THEN found
                 ELSE IF filtered_results(search_results, relevance_threshold) = <<>>
                 THEN found
                 ELSE ErrorResult("name 's' is not defined", q.query, TRUE, "none")

\* lines 320-343 of answer_question_with_docs: the filter, its fallback and the top-up
filtered_docs(docs, relevance_threshold) ==
    LET passing == Passing(docs, relevance_threshold)
    IN  IF passing = <<>>
        THEN Take(SortedByScore(docs), FallbackDocs)
        ELSE IF Len(passing) < MinDocs /\ Len(docs) > Len(passing)
        THEN passing \o Take(SortedByScore(Remaining(docs, passing)),
                             MinDocs - Len(passing))
        ELSE passing

\* answer_question_with_docs over docs that all carry a score, as
\* _process_with_qa builds them
AnswerQuestionWithDocs(docs, relevance_threshold) ==
    IF NoCandidates(docs)
    THEN [NoResult EXCEPT !.answer = NoInformation]
    ELSE LET filtered == filtered_docs(docs, relevance_threshold)
             g == Generate(filtered)
         IN  IF g.raises
             THEN ErrorResult("list index out of range", "", FALSE, g.generation)
             ELSE [NoResult EXCEPT !.answer = g.answer,
                                   !.sources = Sources(filtered),
                                   !.generation = g.generation]

answer_question(relevance_threshold) ==
    /\ UNCHANGED <<categories, topics, entries, nextId, client, rawAdds, indices, qa>>
    /\ call' = [Returned("answer_question", NoId) EXCEPT
                    !.result = [AnswerQuestion(Question, relevance_threshold) EXCEPT
                                    !.relevance_threshold = relevance_threshold]]

answer_question_with_docs(relevance_threshold) ==
    /\ UNCHANGED <<categories, topics, entries, nextId, client, rawAdds, indices, qa>>
    /\ call' = [Returned("answer_question_with_docs", NoId) EXCEPT
                    !.result = [AnswerQuestionWithDocs(request.docs, relevance_threshold)
                                    EXCEPT !.relevance_threshold = relevance_threshold]]

----------------------------------------------------------------------------
(* The answer functions, stage by stage *)

AnswerOps == {"answer_question", "answer_question_with_docs"}

\* the stores and the request, which no stage changes
fixed == <<categories, topics, entries, nextId, client, rawAdds, call, request,
           process, session_state, indices, writers>>

\* the call: answer_question goes on to generate_search_query (line 149),
\* answer_question_with_docs to the test of docs (line 297)
start_request(op, relevance_threshold) ==
    /\ pipeline.stage = "Idle"
    /\ pipeline' =
        [pipeline EXCEPT
            !.op = op,
            !.relevance_threshold = relevance_threshold,
            !.search_results = IF op = "answer_question" THEN <<>> ELSE request.docs,
            !.stage = IF op = "answer_question" THEN "RewritingQuery"
                      ELSE IF NoCandidates(request.docs) THEN "ShortCircuitNoResults"
                      ELSE "Filtering"]
    /\ UNCHANGED fixed

\* line 149: the search query; an exception of generate_search_query would go
\* to the handler of answer_question
rewrite_query ==
    /\ pipeline.stage = "RewritingQuery"
    /\ LET q == generate_search_query(Question)
       IN  pipeline' =
            IF q.raises
            THEN [pipeline EXCEPT
                    !.stage = "Done",
                    !.result = ErrorResult("completion failed", "", FALSE, "none")]
            ELSE [pipeline EXCEPT !.stage = "Retrieving", !.search_query = q.query]
    /\ UNCHANGED fixed

\* lines 153-183: the entries search, the documents search when it found
\* nothing, and the test of search_results
retrieve ==
    /\ pipeline.stage = "Retrieving"
    /\ LET search_results == IF request.docs # <<>> THEN request.docs
                             ELSE request.kb_results
       IN  pipeline' =
            [pipeline EXCEPT
                !.search_results = search_results,
                !.stage = IF NoCandidates(search_results)
                          THEN "ShortCircuitNoResults" ELSE "Filtering"]
    /\ UNCHANGED fixed

\* lines 190-210 and 320-343: the relevance filter.  In answer_question the
\* statement of line 210 raises NameError, which the handler turns into the
\* returned error answer
filter_results ==
    /\ pipeline.stage = "Filtering"
    /\ pipeline' =
        IF pipeline.op = "answer_question"
        THEN LET filtered == filtered_results(pipeline.search_results,
                                              pipeline.relevance_threshold)
             IN  IF filtered = <<>>
                 THEN [pipeline EXCEPT !.filtered = filtered,
                                       !.stage = "ShortCircuitNoResults"]
                 ELSE [pipeline EXCEPT
                        !.filtered = filtered,
                        !.stage = "Done",
                        !.result = ErrorResult("name 's' is not defined",
                                               pipeline.search_query, TRUE, "none")]
        ELSE [pipeline EXCEPT
                !.filtered = filtered_docs(pipeline.search_results,
                                           pipeline.relevance_threshold),
                !.stage = "Generating"]
    /\ UNCHANGED fixed

\* lines 185-188, 206-209 and 299-302: the return of the fixed answer
short_circuit ==
    /\ pipeline.stage = "ShortCircuitNoResults"
    /\ pipeline' =
        [pipeline EXCEPT
            !.stage = "Done",
            !.result =
                IF pipeline.op = "answer_question"
                THEN [NoResult EXCEPT !.answer = NoInformationKb,
                                      !.search_query = pipeline.search_query,
                                      !.retrieved = TRUE]
                ELSE [NoResult EXCEPT !.answer = NoInformation]]
    /\ UNCHANGED fixed

\* lines 363-410: the one completion of the generation step, or the excerpt,
\* and the return
generate_answer ==
    /\ pipeline.stage = "Generating"
    /\ LET g == Generate(pipeline.filtered)
       IN  pipeline' =
            [pipeline EXCEPT
                !.stage = "Done",
                !.completions = IF client THEN @ + 1 ELSE @,
                !.result =
                    IF g.raises
                    THEN ErrorResult("list index out of range", "", FALSE, g.generation)
                    ELSE [NoResult EXCEPT !.answer = g.answer,
                                          !.sources = Sources(pipeline.filtered),
                                          !.generation = g.generation]]
    /\ UNCHANGED fixed

----------------------------------------------------------------------------
(* The deadline on generation: KnowledgeBaseSearchApp._process_with_qa *)
(* (src/app/kb_search_st.py); request.docs are its search_results       *)

TimedOut == "AI processing timed out"
ProcessingError == "AI processing error"

\* lines 360-419: the call up to qa_thread.start(); without use_qa it returns
\* the search results at once
process_with_qa(use_qa) ==
    /\ process.pc = "idle"
    /\ process' = IF use_qa
                  THEN [process EXCEPT !.pc = "join", !.qa_thread = "running"]
                  ELSE [process EXCEPT !.pc = "returned", !.returned = "search_results"]
    /\ UNCHANGED <<categories, topics, entries, nextId, client, rawAdds, call,
                   request, session_state, pipeline, indices, writers>>

\* what get_prompt_customization returns: nothing, or a customization string
Preferences == {"", "always use bullet points"}

\* lines 398 and 407: the question handed to the answer functions
WithPreferences(query, user_preferences_str) ==
    IF user_preferences_str # ""
    THEN query \o "\n\nPlease apply these preferences: " \o user_preferences_str
    ELSE query

\* lines 373-415, the worker thread: it answers from the search results, or
\* asks the question itself when there are none, and leaves the answer or the
\* text of an exception in result_container
process_question(raises, relevance_threshold, user_preferences_str) ==
    /\ process.qa_thread = "running"
    /\ process' =
        [process EXCEPT
            !.qa_thread = "finished",
            !.result_container =
                IF raises
                THEN [@ EXCEPT !.error = "error"]
                ELSE [@ EXCEPT
                        !.answer =
                            IF request.docs # <<>>
                            THEN AnswerQuestionWithDocs(request.docs, relevance_threshold)
                            ELSE AnswerQuestion(
                                    WithPreferences(Question, user_preferences_str),
                                    relevance_threshold),
                        !.preferences_applied = (user_preferences_str # "")]]
    /\ UNCHANGED <<categories, topics, entries, nextId, client, rawAdds, call,
                   request, session_state, pipeline, indices, writers>>

\* line 421: qa_thread.join(timeout) returns, because the worker has finished
\* or because the timeout has passed
join ==
    /\ process.pc = "join"
    /\ process' = [process EXCEPT !.pc = "is_alive",
                                  !.timed_out = (process.qa_thread = "running")]
    /\ UNCHANGED <<categories, topics, entries, nextId, client, rawAdds, call,
                   request, session_state, pipeline, indices, writers>>

\* lines 423-445 without the test of qa_thread.is_alive()
return_results_unchecked ==
    /\ process.pc = "is_alive"
    /\ IF process.result_container.error # None
       THEN /\ session_state' = [session_state EXCEPT !.error = ProcessingError]
            /\ process' = [process EXCEPT !.pc = "returned",
                                          !.returned = "search_results"]
       ELSE IF process.result_container.answer # NoResult
       THEN /\ UNCHANGED session_state
            /\ process' = [process EXCEPT !.pc = "returned", !.returned = "answer",
                                          !.answer = process.result_container.answer]
       ELSE /\ UNCHANGED session_state
            /\ process' = [process EXCEPT !.pc = "returned",
                                          !.returned = "search_results"]
    /\ UNCHANGED <<categories, topics, entries, nextId, client, rawAdds, call, request,
                   pipeline, indices, writers>>

\* lines 423-445: the test of qa_thread.is_alive() and the three returns
return_results ==
    /\ process.pc = "is_alive"
    /\ IF process.qa_thread = "running"
       THEN /\ session_state' = [session_state EXCEPT !.error = TimedOut]
            /\ process' = [process EXCEPT !.pc = "returned",
                                          !.returned = "search_results"]
       ELSE IF process.result_container.error # None
       THEN /\ session_state' = [session_state EXCEPT !.error = ProcessingError]
            /\ process' = [process EXCEPT !.pc = "returned",
                                          !.returned = "search_results"]
       ELSE IF process.result_container.answer # NoResult
       THEN /\ UNCHANGED session_state
            /\ process' = [process EXCEPT !.pc = "returned", !.returned = "answer",
                                          !.answer = process.result_container.answer]
       ELSE /\ UNCHANGED session_state
            /\ process' = [process EXCEPT !.pc = "returned",
                                          !.returned = "search_results"]
    /\ UNCHANGED <<categories, topics, entries, nextId, client, rawAdds, call, request,
                   pipeline, indices, writers>>

----------------------------------------------------------------------------
(* Specifications *)

\* the API outcomes that make a difference to a call with these arguments
ApiFor(needed) == IF needed THEN ApiOutcomes ELSE {[ok |-> FALSE, vector |-> ZeroVector]}

\* the embedding the API answers a well-formed request with
ApiAnswer == [ok |-> TRUE, vector |-> OnesVector]

\* create, update and delete of the three levels; entries carry one content
NextCRUD ==
    \/ \E name \in Names : create_category(name)
    \/ \E category_id \in CategoryIds, name \in Names \cup {None} :
            update_category(category_id, name)
    \/ \E category_id \in CategoryIds : delete_category(category_id)
    \/ \E category_id \in CategoryIds, name \in Names : create_topic(category_id, name)
    \/ \E topic_id \in TopicIds, name \in Names \cup {None} : update_topic(topic_id, name)
    \/ \E topic_id \in TopicIds : delete_topic(topic_id)
    \/ \E topic_id \in TopicIds, title \in Titles :
            create_entry(topic_id, title, "x", TRUE, ApiAnswer)
    \/ \E entry_id \in EntryIds, title \in Titles :
            update_entry(entry_id, title, None, TRUE, ApiAnswer)
    \/ \E entry_id \in EntryIds : delete_entry(entry_id)

\* create and delete of the three levels
Next ==
    \/ \E name \in Names : create_category(name)
    \/ \E category_id \in CategoryIds : delete_category(category_id)
    \/ \E category_id \in CategoryIds, name \in Names : create_topic(category_id, name)
    \/ \E topic_id \in TopicIds : delete_topic(topic_id)
    \/ \E topic_id \in TopicIds, title \in Titles :
            create_entry(topic_id, title, "x", TRUE, ApiAnswer)
    \/ \E entry_id \in EntryIds : delete_entry(entry_id)

\* create and delete of the three levels, and the raw insertion
NextRaw ==
    \/ Next
    \/ \E table_name \in TableNames : \E row \in RawRows(table_name) :
            add_to_table(table_name, row)

\* categories of one name, topics of one name created and deleted, and the
\* entry operations with every argument drawn freely
NextEntries ==
    \/ create_category("a")
    \/ \E category_id \in CategoryIds : create_topic(category_id, "a")
    \/ \E topic_id \in TopicIds : delete_topic(topic_id)
    \/ \E topic_id \in TopicIds, title \in Titles, content \in Contents,
          generate_embedding \in BOOLEAN :
            \E api \in ApiFor(generate_embedding /\ Truthy(content)) :
                create_entry(topic_id, title, content, generate_embedding, api)
    \/ \E entry_id \in EntryIds, title \in Titles \cup {None}, content \in Contents \cup {None},
          generate_embedding \in BOOLEAN :
            \E api \in ApiFor(generate_embedding /\ content # None) :
                update_entry(entry_id, title, content, generate_embedding, api)
    \/ \E entry_id \in EntryIds : delete_entry(entry_id)

\* the operations that fill a store: one category, its topics, their entries,
\* and entries inserted raw
NextFill ==
    \/ create_category("a")
    \/ \E category_id \in CategoryIds, name \in Names : create_topic(category_id, name)
    \/ \E topic_id \in TopicIds, title \in Titles :
            create_entry(topic_id, title, "x", TRUE, ApiAnswer)
    \/ \E row \in RawRows("entries") : add_to_table("entries", row)

\* whether a search with these arguments gets as far as the embedding provider
NeedsEmbedding(query, filter, mode) ==
    ~(mode = "ok" /\ Matches(query) # {} /\ filter = <<NoId, NoId>>)

\* a store being filled, and searches of it
NextSearch ==
    \/ NextFill
    \/ \E query \in Queries, limit \in 1..MaxLimit, filter \in SearchFilters,
          mode \in FtsModes :
            \E api \in ApiFor(NeedsEmbedding(query, filter, mode)) :
                search_entries(query, limit, filter[1], filter[2], mode, api)

\* the requests a question can come with: what retrieval finds (the documents
\* table is asked only when the entries search found nothing) and whether the
\* two completions answer
Requests ==
    {[docs |-> d, kb_results |-> <<>>, rewrite_ok |-> r, generation_ok |-> g] :
        d \in DocLists, r \in BOOLEAN, g \in BOOLEAN}
    \cup {[docs |-> <<>>, kb_results |-> k, rewrite_ok |-> r, generation_ok |-> g] :
        k \in DocLists, r \in BOOLEAN, g \in BOOLEAN}

\* an empty store and one request
InitQA ==
    /\ categories = {}
    /\ topics = {}
    /\ entries = {}
    /\ nextId = [categories |-> 1, topics |-> 1, entries |-> 1]
    /\ client \in BOOLEAN
    /\ rawAdds = 0
    /\ call = NoCall
    /\ request \in Requests
    /\ process = NoProcess
    /\ session_state = NoSession
    /\ pipeline = NoPipeline
    /\ indices = TextIndices
    /\ writers = NoWriters

\* the hit lists of a full-text search: the engine scores each hit with
\* _score, a similarity, and returns the hits from the highest _score down
Hits ==
    UNION {{[i \in 1..n |-> [text |-> ToString(i), _score |-> f[i]]] :
                f \in {g \in [1..n -> Scores] :
                            \A i \in 1..(n - 1) : g[i] >= g[i + 1]}} :
            n \in 0..MaxDocs}

\* search_table_fulltext lines 577-580, result["score"] = float(result["_score"]),
\* and the candidates both answer functions build of the rows,
\* 'score': result.get('score', 1.0)
FulltextCandidates(hits) ==
    [i \in 1..Len(hits) |-> [text |-> hits[i].text, score |-> hits[i]._score]]

\* the requests whose candidates search_entries took from the full-text search
FulltextRequests ==
    {[docs |-> FulltextCandidates(hits), kb_results |-> <<>>,
      rewrite_ok |-> r, generation_ok |-> g] :
        hits \in Hits, r \in BOOLEAN, g \in BOOLEAN}

\* an empty store and one request answered from the full-text search
InitFulltext ==
    /\ categories = {}
    /\ topics = {}
    /\ entries = {}
    /\ nextId = [categories |-> 1, topics |-> 1, entries |-> 1]
    /\ client \in BOOLEAN
    /\ rawAdds = 0
    /\ call = NoCall
    /\ request \in FulltextRequests
    /\ process = NoProcess
    /\ session_state = NoSession
    /\ pipeline = NoPipeline
    /\ indices = TextIndices
    /\ writers = NoWriters

\* the two answer functions, applied to the request
NextQA ==
    \/ \E relevance_threshold \in Thresholds : answer_question(relevance_threshold)
    \/ \E relevance_threshold \in Thresholds :
            answer_question_with_docs(relevance_threshold)

\* the requests with at most one candidate
ShortRequests == {r \in Requests : Len(r.docs) <= 1 /\ Len(r.kb_results) <= 1}

\* an empty store, one search whose results go to _process_with_qa
InitDeadline ==
    /\ categories = {}
    /\ topics = {}
    /\ entries = {}
    /\ nextId = [categories |-> 1, topics |-> 1, entries |-> 1]
    /\ client \in BOOLEAN
    /\ rawAdds = 0
    /\ call = NoCall
    /\ request \in ShortRequests
    /\ process = NoProcess
    /\ session_state = NoSession
    /\ pipeline = NoPipeline
    /\ indices = TextIndices
    /\ writers = NoWriters

\* the caller of _process_with_qa and its worker thread, interleaved
NextDeadline ==
    \/ \E use_qa \in BOOLEAN : process_with_qa(use_qa)
    \/ \E raises \in BOOLEAN, relevance_threshold \in Thresholds,
          user_preferences_str \in Preferences :
            process_question(raises, relevance_threshold, user_preferences_str)
    \/ join
    \/ return_results

\* the requests with at most two candidates
BriefRequests == {r \in Requests : Len(r.docs) <= 2 /\ Len(r.kb_results) <= 2}

\* an empty store and one request, which one of the answer functions takes
\* through its stages
InitRequest ==
    /\ categories = {}
    /\ topics = {}
    /\ entries = {}
    /\ nextId = [categories |-> 1, topics |-> 1, entries |-> 1]
    /\ client \in BOOLEAN
    /\ rawAdds = 0
    /\ call = NoCall
    /\ request \in BriefRequests
    /\ process = NoProcess
    /\ session_state = NoSession
    /\ pipeline = NoPipeline
    /\ indices = TextIndices
    /\ writers = NoWriters

\* the stages of one call of an answer function
NextRequest ==
    \/ \E op \in AnswerOps, relevance_threshold \in Thresholds :
            start_request(op, relevance_threshold)
    \/ rewrite_query
    \/ retrieve
    \/ filter_results
    \/ short_circuit
    \/ generate_answer

\* the requests with at most one candidate, found in the entries table
ProviderRequests == {r \in ShortRequests : r.kb_results = <<>>}

\* an empty store and one request
InitProviders ==
    /\ categories = {}
    /\ topics = {}
    /\ entries = {}
    /\ nextId = [categories |-> 1, topics |-> 1, entries |-> 1]
    /\ client \in BOOLEAN
    /\ rawAdds = 0
    /\ call = NoCall
    /\ request \in ProviderRequests
    /\ process = NoProcess
    /\ session_state = NoSession
    /\ pipeline = NoPipeline
    /\ indices = TextIndices
    /\ writers = NoWriters

\* the operations that call a provider, over one category and its topic
NextProviders ==
    \/ create_category("a")
    \/ create_topic(1, "a")
    \/ \E title \in Titles, content \in Contents, generate_embedding \in BOOLEAN :
            \E api \in ApiFor(generate_embedding /\ Truthy(content)) :
                create_entry(1, title, content, generate_embedding, api)
    \/ \E entry_id \in EntryIds, content \in Contents \cup {None},
          generate_embedding \in BOOLEAN :
            \E api \in ApiFor(generate_embedding /\ content # None) :
                update_entry(entry_id, None, content, generate_embedding, api)
    \/ \E mode \in FtsModes : \E api \in ApiFor(NeedsEmbedding("x", <<NoId, NoId>>, mode)) :
            search_entries("x", MaxLimit, NoId, NoId, mode, api)
    \/ \E relevance_threshold \in Thresholds : answer_question(relevance_threshold)
    \/ \E relevance_threshold \in Thresholds :
            answer_question_with_docs(relevance_threshold)

\* the entries of a store with n entries under one topic
EntriesUpTo(n) ==
    {[id |-> i, topic_id |-> 1, title |-> ToString(i), content |-> "x",
      vector |-> ZeroVector] : i \in 1..n}

\* a table or a column the database does not have
Missing == "missing"

\* a store that has up to MaxRows entries and some of the indices of the
\* entries table
InitIndex ==
    /\ categories = {[id |-> 1, name |-> "a"]}
    /\ topics = {[id |-> 1, category_id |-> 1, name |-> "a"]}
    /\ \E n \in 0..MaxRows :
        /\ entries = EntriesUpTo(n)
        /\ nextId = [categories |-> 2, topics |-> 2, entries |-> n + 1]
    /\ client = TRUE
    /\ rawAdds = 0
    /\ call = NoCall
    /\ request = NoRequest
    /\ process = NoProcess
    /\ session_state = NoSession
    /\ pipeline = NoPipeline
    /\ indices \in SUBSET (TextIndices \cup VectorIndices)
    /\ writers = NoWriters

\* the index builders, called one by one and as the index-build step, and the
\* deletion of entries
NextIndex ==
    \/ \E table_name \in {"entries", Missing}, column_name \in {"title", "content", Missing},
          engine \in BuildOutcomes :
            create_inverted_index(table_name, column_name, engine)
    \/ \E table_name \in {"entries", Missing}, column_name \in {"vector", Missing},
          engine \in BuildOutcomes :
            create_vector_index(table_name, column_name, engine)
    \/ \E engine \in EngineRuns : _create_or_update_inverted_indices("entries", engine)
    \/ \E entry_id \in 1..MaxRows : delete_entry(entry_id)

\* a storage engine that completes every build it accepts
EngineOk == [step \in 1..3 |-> "ok"]

\* the index-build step on a working engine, and the deletion of entries
NextReindex ==
    \/ _create_or_update_inverted_indices("entries", EngineOk)
    \/ \E entry_id \in 1..MaxRows : delete_entry(entry_id)

\* a hierarchy that one thread builds and then deletes from, the deletes
\* statement by statement over a storage that can fail
NextCascadeSteps ==
    \/ writers = NoWriters /\ \E name \in Names : create_category(name)
    \/ writers = NoWriters /\ \E category_id \in CategoryIds :
            create_topic(category_id, "a")
    \/ writers = NoWriters /\ \E topic_id \in TopicIds, title \in Titles :
            create_entry(topic_id, title, "x", TRUE, ApiAnswer)
    \/ \E category_id \in CategoryIds, fails \in BOOLEAN :
            delete_category_begin(1, category_id, fails)
    \/ \E topic_id \in TopicIds, fails \in BOOLEAN :
            delete_topic_begin(1, topic_id, fails)
    \/ \E fails \in BOOLEAN : cascade_delete_entry(1, fails)
    \/ \E fails \in BOOLEAN : cascade_delete_topic(1, fails)
    \/ \E fails \in BOOLEAN : cascade_delete_category(1, fails)

\* one category with topics and entries, and the searches of one topic for a
\* word every content has
NextTopicSearch ==
    \/ create_category("a")
    \/ \E category_id \in CategoryIds, name \in Names : create_topic(category_id, name)
    \/ \E topic_id \in TopicIds, title \in Titles :
            create_entry(topic_id, title, "x", TRUE, ApiAnswer)
    \/ \E limit \in 1..MaxLimit, topic_id \in TopicIds, mode \in {"noindex", "ok"} :
            \E api \in ApiOutcomes :
                search_entries("x", limit, NoId, topic_id, mode, api)

\* a hierarchy that only grows, and the deletion of categories
NextCascade ==
    \/ \E name \in Names : create_category(name)
    \/ \E category_id \in CategoryIds, name \in Names : create_topic(category_id, name)
    \/ \E topic_id \in TopicIds, title \in Titles :
            create_entry(topic_id, title, "x", TRUE, ApiAnswer)
    \/ \E category_id \in CategoryIds : delete_category(category_id)

\* categories and topics, created and deleted
NextTopics ==
    \/ \E name \in Names : create_category(name)
    \/ \E category_id \in CategoryIds : delete_category(category_id)
    \/ \E category_id \in CategoryIds, name \in Names : create_topic(category_id, name)
    \/ \E topic_id \in TopicIds : delete_topic(topic_id)

Spec == Init /\ [][Next]_vars

SpecCascade == Init /\ [][NextCascade]_vars

SpecTopics == Init /\ [][NextTopics]_vars

SpecTopicSearch == Init /\ [][NextTopicSearch]_vars

SpecDeadline == InitDeadline /\ [][NextDeadline]_vars

SpecQA == InitQA /\ [][NextQA]_vars

SpecFulltext == InitFulltext /\ [][NextQA]_vars

\* one thread that builds a hierarchy and then updates rows of it, the
\* updates statement by statement over a storage that can fail
NextUpdateSteps ==
    \/ writers = NoWriters /\ \E name \in Names : create_category(name)
    \/ writers = NoWriters /\ \E category_id \in CategoryIds :
            create_topic(category_id, "a")
    \/ writers = NoWriters /\ \E topic_id \in TopicIds :
            create_entry(topic_id, "t", "x", TRUE, ApiAnswer)
    \/ \E op \in Updates, id \in 1..MaxCategories :
            update_begin(1, op, id, "b", ApiAnswer)
    \/ \E fails \in BOOLEAN : update_delete(1, fails)
    \/ \E fails \in BOOLEAN : update_add(1, fails)

SpecUpdateSteps == Init /\ [][NextUpdateSteps]_vars

SpecIndex == InitIndex /\ [][NextIndex]_vars

SpecCascadeSteps == Init /\ [][NextCascadeSteps]_vars

\* two writers that create categories, topics and entries with no lock
NextCreateRace ==
    \/ \E w \in Writers, name \in Names : create_check(w, "create_category", NoId, name)
    \/ \E w \in Writers, category_id \in CategoryIds :
            create_check(w, "create_topic", category_id, "a")
    \/ \E w \in Writers, topic_id \in TopicIds :
            create_check(w, "create_entry", topic_id, "t")
    \/ \E w \in Writers : create_insert(w)

SpecCreateRace == Init /\ [][NextCreateRace]_vars

SpecReindex == InitIndex /\ [][NextReindex]_vars

SpecProviders == InitProviders /\ [][NextProviders]_vars

\* a call that has begun runs on: nothing in the code waits for another thread
SpecRequest == InitRequest /\ [][NextRequest]_vars /\ WF_vars(NextRequest)

SpecRaw == Init /\ [][NextRaw]_vars

SpecCRUD == Init /\ [][NextCRUD]_vars

SpecEntries == Init /\ [][NextEntries]_vars

SpecSearch == Init /\ [][NextSearch]_vars

----------------------------------------------------------------------------
(* Properties *)

\* the provider was called and failed: no client, or an API error
ProviderFailed(c) == c.embed \in {"noclient", "apierror"}

\* the ids of a set of rows
IdsOf(rows) == {r.id : r \in rows}

\* C1: when delete_category(C) has run, no topics row has category_id C, no
\* entries row belongs to a topic that was under C, no categories row has id C,
\* and none of the deleted topic and entry ids is found any more.
CascadeInvariant ==
    [][\A c \in CategoryIds :
        (call'.op = "delete_category" /\ delete_category(c)) =>
            LET under == {t.id : t \in TopicsOf(c)}
                below == {e.id : e \in {x \in entries : x.topic_id \in under}}
            IN  /\ \A t \in topics' : t.category_id # c /\ t.id \notin under
                /\ \A e \in entries' : e.topic_id \notin under /\ e.id \notin below
                /\ \A k \in categories' : k.id # c]_vars

\* a delete_category that removed topics and entries, beside a category it left
CascadeWitness ==
    /\ call.op = "delete_category"
    /\ call.topic_ids # {}
    /\ call.entry_ids # {}
    /\ categories # {}

\* C2: every entries row's topic_id is the id of exactly one topics row and
\* every topics row's category_id is the id of exactly one categories row.
ReferentialIntegrity ==
    /\ \A e \in entries : Cardinality(TopicRows(e.topic_id)) = 1
    /\ \A t \in topics : Cardinality(CategoryRows(t.category_id)) = 1

\* C3: create_topic under an existing category raises the duplicate-name error
\* and adds no row when that category has a topic of that name; otherwise,
\* also when another category has a topic of that name, it adds exactly one row.
UniquenessOnCreate ==
    [][\A c \in CategoryIds, n \in Names :
        (call'.op = "create_topic" /\ CategoryRows(c) # {} /\ create_topic(c, n)) =>
            IF \E t \in topics : t.category_id = c /\ t.name = n
            THEN call'.status = "duplicate" /\ topics' = topics
            ELSE /\ call'.status = "ok"
                 /\ topics' = topics \cup
                        {[id |-> call'.value, category_id |-> c, name |-> n]}
                 /\ call'.value \notin IdsOf(topics)]_vars

\* a create_topic that succeeded with a name a topic of another category has
UniquenessWitness ==
    /\ call.op = "create_topic"
    /\ call.status = "ok"
    /\ \E t \in topics, o \in topics :
        /\ t.id = call.value
        /\ o.name = t.name
        /\ o.category_id # t.category_id
        /\ CategoryRows(o.category_id) # {}

\* C4: create_topic with a category_id of no category and create_entry with a
\* topic_id of no topic raise not-found, leave the three tables unchanged and
\* call the embedding provider not once.
ParentExistenceOnCreate ==
    [][/\ call'.op = "create_topic" =>
            \A c \in {k \in CategoryIds : CategoryRows(k) = {}}, n \in Names :
                create_topic(c, n) =>
                    /\ call'.status = "notfound"
                    /\ tables' = tables
                    /\ EmbedCalls(call') = 0
       /\ call'.op = "create_entry" =>
            \A t \in {k \in TopicIds : TopicRows(k) = {}}, title \in Titles,
               content \in Contents, g \in BOOLEAN, api \in ApiOutcomes :
                create_entry(t, title, content, g, api) =>
                    /\ call'.status = "notfound"
                    /\ tables' = tables
                    /\ EmbedCalls(call') = 0]_vars

\* a create_entry that raised not-found while the store had other topics
ParentExistenceWitness ==
    /\ call.op = "create_entry"
    /\ call.status = "notfound"
    /\ topics # {}

\* C5: no two categories share a name, no two topics of one category share a
\* name, no two entries of one topic share a title.
SiblingNamesUnique ==
    /\ \A c \in categories, d \in categories : c.name = d.name => c = d
    /\ \A t \in topics, u \in topics :
        (t.category_id = u.category_id /\ t.name = u.name) => t = u
    /\ \A e \in entries, f \in entries :
        (e.topic_id = f.topic_id /\ e.title = f.title) => e.id = f.id

\* C6: create_entry with generate_embedding = true, an existing topic and a
\* fresh title, whose provider call fails, inserts the entry with the all-zero
\* vector of the configured width and returns the new id.
DegradedWrite ==
    [][call'.op = "create_entry" =>
        \A t \in {k \in TopicIds : TopicRows(k) # {}}, title \in Titles,
           content \in {x \in Contents : Truthy(x)},
           api \in {a \in ApiOutcomes : ~client \/ ~a.ok} :
            (/\ ~\E e \in entries : e.topic_id = t /\ e.title = title
             /\ create_entry(t, title, content, TRUE, api)) =>
                /\ call'.status = "ok"
                /\ ProviderFailed(call')
                /\ call'.value \notin IdsOf(entries)
                /\ entries' = entries \cup
                        {[id |-> call'.value, topic_id |-> t, title |-> title,
                          content |-> content,
                          vector |-> [i \in 1..Dimensions |-> 0]]}]_vars

\* a create_entry that returned an id although the provider had failed
DegradedWriteWitness ==
    /\ call.op = "create_entry"
    /\ call.status = "ok"
    /\ ProviderFailed(call)
    /\ \E e \in entries : e.id = call.value /\ e.content = "x"

\* C7: update_entry calls the embedding provider only when the content
\* changes; on every other update the stored vector is the one from before.
ReembedOnlyOnChange ==
    [][\A id \in EntryIds, title \in Titles \cup {None},
          content \in Contents \cup {None}, g \in BOOLEAN, api \in ApiOutcomes :
        update_entry(id, title, content, g, api) =>
            \A current \in EntryRows(id) :
                (content = None \/ content = current.content) =>
                    /\ EmbedCalls(call') = 0
                    /\ \A e \in entries' : e.id = id => e.vector = current.vector]_vars

\* C8: every entries row's vector has exactly the configured width.
VectorWidthInvariant ==
    \A e \in entries : Len(e.vector) = Dimensions

\* an update_entry that stored a vector, in a store with an embedded and a zero vector
VectorWidthWitness ==
    /\ call.op = "update_entry"
    /\ call.status = "ok"
    /\ call.embed # "none"
    /\ \E e \in entries, f \in entries : e.vector # f.vector

\* C9: an unfiltered search whose full-text search returned rows returns those
\* rows, at most limit, each with its topic and category names, and calls
\* neither the embedding provider nor the vector search.
FulltextShortCircuit ==
    [][\A query \in Queries, limit \in 1..MaxLimit, mode \in FtsModes, api \in ApiOutcomes :
        (call'.ftsRows # {} /\ search_entries(query, limit, NoId, NoId, mode, api)) =>
            /\ IdsOf(call'.rows) = IdsOf(call'.ftsRows)
            /\ Cardinality(call'.rows) <= limit
            /\ \A r \in call'.rows :
                IF TopicRows(r.topic_id) = {}
                THEN r.topic_name = "Unknown" /\ r.category_name = "Unknown"
                ELSE \A t \in TopicRows(r.topic_id) :
                        /\ r.topic_name = t.name
                        /\ IF CategoryRows(t.category_id) = {}
                           THEN r.category_name = "Unknown"
                           ELSE \A c \in CategoryRows(t.category_id) :
                                    r.category_name = c.name
            /\ EmbedCalls(call') = 0
            /\ ~call'.vecRan]_vars

\* C10: an unfiltered search whose full-text search returned no row computes
\* a query embedding, runs the vector search and returns its rows, at most limit.
RetrievalFallback ==
    [][\A query \in Queries, limit \in 1..MaxLimit, mode \in FtsModes, api \in ApiOutcomes :
        (call'.ftsRows = {} /\ search_entries(query, limit, NoId, NoId, mode, api)) =>
            /\ EmbedCalls(call') = 1
            /\ call'.embed \in {"ok", "apierror"}
            /\ call'.vecRan
            /\ IdsOf(call'.rows) = IdsOf(call'.vecRows)
            /\ Cardinality(call'.rows) <= limit]_vars

\* a search that was given a category or a topic filter
FilteredSearch(c) == c.op = "search_entries" /\ c.filter # <<NoId, NoId>>

\* C11: a search_entries call with a topic_id or category_id filter never
\* attempts the full-text search; only the vector path runs.
FulltextSkippedWhenFiltered ==
    FilteredSearch(call) => call.fts = "none"

\* C12: every row search_entries returns for topic_id = T has topic_id T, also
\* when the full-text search matched entries of other topics.
TopicFilter ==
    (call.op = "search_entries" /\ call.filter[2] # NoId) =>
        \A r \in call.rows : r.topic_id = call.filter[2]

\* a search by topic that returned rows while the text index had matched an
\* entry of another topic
TopicFilterWitness ==
    /\ call.op = "search_entries"
    /\ call.filter[2] # NoId
    /\ call.rows # {}
    /\ \E f \in call.ftsRows : f.topic_id # call.filter[2]

\* C13: every row search_entries returns for category_id = C and no topic_id
\* belongs to a topic of category C, also when C has no topics or does not exist.
CategoryFilter ==
    (call.op = "search_entries" /\ call.filter[1] # NoId /\ call.filter[2] = NoId) =>
        \A r \in call.rows :
            \E t \in TopicRows(r.topic_id) : t.category_id = call.filter[1]

\* the rows a search selected: those of the full-text path when it was taken,
\* those of the vector search when it ran
Selected(c) ==
    IF c.vecRan THEN c.vecRows ELSE IF c.embed = "none" THEN c.ftsRows ELSE {}

\* C14: search_entries returns every entry either path selected, with its
\* topic and category names, and with "Unknown" where the topic row or the
\* category row is not found.
DenormalizationKeepsResults ==
    call.op = "search_entries" =>
        /\ IdsOf(call.rows) = IdsOf(Selected(call))
        /\ \A r \in call.rows :
            IF TopicRows(r.topic_id) = {}
            THEN r.topic_name = "Unknown" /\ r.category_name = "Unknown"
            ELSE \A t \in TopicRows(r.topic_id) :
                    /\ r.topic_name = t.name
                    /\ IF CategoryRows(t.category_id) = {}
                       THEN r.category_name = "Unknown"
                       ELSE \A k \in CategoryRows(t.category_id) :
                                r.category_name = k.name

\* the candidates retrieval found for an answer_question call
Candidates == IF request.docs # <<>> THEN request.docs ELSE request.kb_results

\* the candidates of a list that pass the threshold of the call
Relevant(docs) == Passing(docs, call.result.relevance_threshold)

\* the texts of a list of candidates or sources
Texts(seq) == {seq[i].text : i \in 1..Len(seq)}

\* the sources are count candidates of docs with the lowest scores among them
LowestScored(sources, docs, count) ==
    /\ Len(sources) = count
    /\ Cardinality(Texts(sources)) = count
    /\ \A i \in 1..Len(sources) : \E j \in 1..Len(docs) :
            docs[j].text = sources[i].text /\ docs[j].score = sources[i].relevance_score
    /\ \A j \in 1..Len(docs) :
            docs[j].text \notin Texts(sources) =>
                \A i \in 1..Len(sources) : sources[i].relevance_score <= docs[j].score

\* C15: when retrieval yields no candidates (answer_question: entries search
\* and documents fallback both empty; answer_question_with_docs: docs empty)
\* the call returns the fixed no-information answer with sources = [] and makes
\* no answer-generation call.
NoResultShortCircuit ==
    /\ (call.op = "answer_question" /\ Candidates = <<>>) =>
            /\ call.result.answer = NoInformationKb
            /\ call.result.sources = <<>>
            /\ call.result.generation = "none"
    /\ (call.op = "answer_question_with_docs" /\ request.docs = <<>>) =>
            /\ call.result.answer = NoInformation
            /\ call.result.sources = <<>>
            /\ call.result.generation = "none"

\* an answer_question_with_docs without docs, with a client whose completion
\* would have answered
NoResultWitness ==
    /\ call.op = "answer_question_with_docs"
    /\ request.docs = <<>>
    /\ client
    /\ request.generation_ok

\* C16: when retrieval found candidates and none has score < threshold,
\* answer_question returns the top 2 candidates by score as sources with a
\* non-empty answer, and answer_question_with_docs the up-to-5 lowest-score docs.
RelevanceFallback ==
    /\ (call.op = "answer_question" /\ Candidates # <<>> /\ Relevant(Candidates) = <<>>) =>
            /\ LowestScored(call.result.sources, Candidates,
                            IF Len(Candidates) < FallbackResults
                            THEN Len(Candidates) ELSE FallbackResults)
            /\ call.result.answer # <<>>
            /\ call.result.answer[1] # ErrorOccurred
    /\ (call.op = "answer_question_with_docs" /\ request.docs # <<>>
            /\ Relevant(request.docs) = <<>>) =>
            /\ LowestScored(call.result.sources, request.docs,
                            IF Len(request.docs) < FallbackDocs
                            THEN Len(request.docs) ELSE FallbackDocs)
            /\ call.result.answer # <<>>

\* the size the context set is topped up to
TopUpSize(docs) == IF Len(docs) < MinDocs THEN Len(docs) ELSE MinDocs

\* sources holds the relevant candidates of docs and, when those are fewer
\* than the top-up size, the lowest-scored of the others up to that size
ToppedUp(sources, docs) ==
    LET relevant == Relevant(docs)
        others == Remaining(docs, relevant)
        added == SelectSeq(sources, LAMBDA x : x.text \notin Texts(relevant))
    IN  /\ Texts(relevant) \subseteq Texts(sources)
        /\ Len(sources) >= TopUpSize(docs)
        /\ IF Len(relevant) >= MinDocs
           THEN added = <<>>
           ELSE LowestScored(added, others, TopUpSize(docs) - Len(relevant))

\* C17: when at least one but fewer than 3 candidates have score < threshold
\* and further candidates exist, the context set is the relevant candidates
\* and the lowest-score remaining ones up to 3 members (or all candidates),
\* in answer_question and in answer_question_with_docs.
ThinSetTopUp ==
    /\ (/\ call.op = "answer_question"
        /\ Relevant(Candidates) # <<>>
        /\ Len(Relevant(Candidates)) < MinDocs
        /\ Len(Candidates) > Len(Relevant(Candidates))) =>
            ToppedUp(call.result.sources, Candidates)
    /\ (/\ call.op = "answer_question_with_docs"
        /\ Relevant(request.docs) # <<>>
        /\ Len(Relevant(request.docs)) < MinDocs
        /\ Len(request.docs) > Len(Relevant(request.docs))) =>
            ToppedUp(call.result.sources, request.docs)

\* C18: when the provider is unavailable or fails during generate_search_query,
\* answer_question searches with the raw question and reaches the retrieval
\* stage; the failure makes it neither return early nor return an error of its own.
QueryRewriteDegradation ==
    (call.op = "answer_question" /\ (~client \/ ~request.rewrite_ok)) =>
        /\ call.result.search_query = Question
        /\ call.result.retrieved
        /\ Candidates = <<>> => call.result.answer = NoInformationKb

\* an answer_question whose rewriting completion failed and whose retrieval ran
QueryRewriteWitness ==
    /\ call.op = "answer_question"
    /\ client
    /\ ~request.rewrite_ok
    /\ call.result.retrieved
    /\ Candidates # <<>>

\* the lowest score among a list of sources
BestScore(sources) ==
    CHOOSE m \in {sources[i].relevance_score : i \in 1..Len(sources)} :
        \A i \in 1..Len(sources) : m <= sources[i].relevance_score

\* C19: when the answer-generation call fails or no client is available and
\* the context set has a candidate, the answer contains the text of the most
\* relevant candidate used (best score), after the error message on a provider
\* failure, and the sources list is the whole context set.
GenerationDegradation ==
    (/\ call.op \in {"answer_question", "answer_question_with_docs"}
     /\ (IF call.op = "answer_question" THEN Candidates ELSE request.docs) # <<>>
     /\ (~client \/ ~request.generation_ok)) =>
        /\ call.result.sources # <<>>
        /\ call.result.answer # <<>>
        /\ call.result.answer[1] # ErrorOccurred
        /\ (client => call.result.answer[1] = ApiError)
        /\ \E i \in 1..Len(call.result.sources) :
            /\ call.result.sources[i].relevance_score = BestScore(call.result.sources)
            /\ call.result.answer[Len(call.result.answer)] = call.result.sources[i].text

PreferenceInjectionLeavesRetrieval ==
    (process.qa_thread = "finished" /\ process.result_container.error = None) =>
        \A relevance_threshold \in Thresholds :
            process.result_container.answer.search_query =
                (IF request.docs # <<>>
                 THEN AnswerQuestionWithDocs(request.docs, relevance_threshold)
                 ELSE AnswerQuestion(Question, relevance_threshold)).search_query

\* the place of a stage in Idle -> RewritingQuery -> Retrieving -> Filtering ->
\* (ShortCircuitNoResults | Generating) -> Done
Rank(stage) ==
    CASE stage = "Idle" -> 0
      [] stage = "RewritingQuery" -> 1
      [] stage = "Retrieving" -> 2
      [] stage = "Filtering" -> 3
      [] stage \in {"ShortCircuitNoResults", "Generating"} -> 4
      [] stage = "Done" -> 5

\* C22: a request of answer_question or answer_question_with_docs moves
\* forward only through Idle, RewritingQuery, Retrieving, Filtering,
\* ShortCircuitNoResults or Generating, Done: no stage is entered twice, Done
\* is entered from ShortCircuitNoResults or Generating, the answer-generation
\* provider is called at most once, and every request reaches Done.
PerRequestStateMachine ==
    /\ [][pipeline'.stage # pipeline.stage =>
            /\ Rank(pipeline'.stage) > Rank(pipeline.stage)
            /\ pipeline'.stage = "Done" =>
                    pipeline.stage \in {"ShortCircuitNoResults", "Generating"}
            /\ pipeline'.completions <= 1]_vars
    /\ <>(pipeline.stage = "Done")

\* C23: when the embedding provider or the generative-text provider fails,
\* create_entry returns the new id, update_entry returns True, search_entries
\* returns a list (the empty one when its handler caught the failure), and
\* answer_question and answer_question_with_docs return a dict with an answer
\* and a sources list; none of them raises.
NoProviderExceptionEscapes ==
    /\ (call.op = "create_entry" /\ ProviderFailed(call)) =>
            call.status = "ok" /\ call.value \in IdsOf(entries)
    /\ (call.op = "update_entry" /\ ProviderFailed(call)) =>
            call.status = "ok" /\ call.value = NoId
    /\ (call.op = "search_entries" /\ ProviderFailed(call)) =>
            /\ call.status \in {"ok", "caught"}
            /\ call.status = "caught" => call.rows = {}
    /\ call.op \in AnswerOps =>
            /\ call.status = "ok"
            /\ call.result.answer # <<>>
            /\ call.result.answer[1] = ErrorOccurred => call.result.sources = <<>>

\* an update_entry of an embedded entry that returned True although the
\* provider had no client
NoProviderExceptionWitness ==
    /\ call.op = "update_entry"
    /\ call.embed = "noclient"
    /\ call.status = "ok"
    /\ \E e \in entries : e.content = "x"

\* C24: create_vector_index asks the engine for an index only when the table
\* holds at least 5 rows; with fewer rows, a missing table or column, or a
\* build error it returns False, raises nothing and creates no index; it
\* returns True only after the build succeeded.
VectorIndexGating ==
    [][call'.op = "create_vector_index" =>
        LET table_name == call'.column[1]
            column_name == call'.column[2]
            returned == call'.built[1]
        IN  /\ call'.status = "ok"
            /\ call'.attempts > 0 =>
                    table_name \in TableNames /\ CountRows(table_name) >= 5
            /\ (\/ table_name \notin TableNames
                \/ column_name \notin Columns(table_name)
                \/ CountRows(table_name) < 5) => ~returned /\ call'.attempts = 0
            /\ ~returned => indices' = indices
            /\ returned => /\ call'.attempts = 1
                           /\ <<table_name, column_name>> \in indices']_vars

\* a create_vector_index that built the index of a table of exactly 5 rows
VectorIndexWitness ==
    /\ call.op = "create_vector_index"
    /\ call.built = <<TRUE>>
    /\ Cardinality(entries) = 5
    /\ <<"entries", "vector">> \in indices

\* C25: a second _create_or_update_inverted_indices on 'entries' that follows
\* the first with no write between them leaves the indices as the first left
\* them, and each of its create steps returns what it returned in the first.
IdempotentReindex ==
    [][(/\ call.op = "_create_or_update_inverted_indices"
        /\ call'.op = "_create_or_update_inverted_indices") =>
            /\ indices' = indices
            /\ call'.built = call.built]_vars

\* the cascades
Cascades == {"delete_category", "delete_topic"}

\* the rows a cascade was to delete are gone
AllRemoved(activation) ==
    /\ \A e \in entries : e.id \notin activation.found.entry_ids
    /\ \A t \in topics : t.id \notin activation.found.topic_ids
    /\ activation.op = "delete_category" => CategoryRows(activation.id) = {}

\* C26: a delete_category or delete_topic in which a storage call failed
\* returns False, and the rows it had deleted stay deleted; it returns True
\* only when the entries, the topics and the category row are all gone; and
\* the page shows the success message only then, and an error message when
\* the cascade returned False.
PartialCascadeReported ==
    \A w \in Writers :
        LET activation == writers[w]
        IN  activation.op \in Cascades =>
                /\ (activation.failed /\ activation.pc = "idle") =>
                        activation.returned = "False"
                /\ \A e \in entries :
                        e.id \in activation.found.entry_ids => e.id \in activation.entry_ids
                /\ \A t \in topics :
                        t.id \in activation.found.topic_ids => t.id \in activation.topic_ids
                /\ activation.returned = "True" =>
                        ~activation.failed /\ AllRemoved(activation)
                /\ activation.message = "success" <=> activation.returned = "True"
                /\ activation.returned = "False" => activation.message = "error"

\* the rows of the new state that are siblings of a row and have its name
Twins(row, op) ==
    IF op = "create_category"
    THEN {c \in categories' : c.name = row.name}
    ELSE IF op = "create_topic"
    THEN {t \in topics' : t.category_id = row.category_id /\ t.name = row.name}
    ELSE {e \in entries' : e.topic_id = row.topic_id /\ e.title = row.title}

\* C27: the reads of a create and its insert are apart and take no lock. An
\* insert whose writer was alone between its reads and its insert adds a row
\* that is the only one of its name under its parent, so a writer at a time
\* reaches no two siblings of one name through create; with two writers both
\* can pass the reads and both insert (the witness).
CreateRaceNeedsTwoWriters ==
    [][\A w \in Writers :
        (writers[w].pc = "insert" /\ writers'[w].pc = "idle"
            /\ ~writers[w].overlapped) =>
                Twins(NewRow(writers[w]), writers[w].op) = {NewRow(writers[w])}]_vars

\* two categories of one name and different ids, and both writers have
\* returned an id
CreateRaceWitness ==
    /\ \E c1 \in categories, c2 \in categories : c1.id # c2.id /\ c1.name = c2.name
    /\ \A w \in Writers : writers[w].returned = "id"

\* the candidate is among the sources of the answer
Kept(doc) ==
    \E i \in 1..Len(call.result.sources) : call.result.sources[i].text = doc.text

\* C28: for candidates of the full-text search, whose score is a similarity,
\* neither answer function drops a candidate of a higher score while it keeps
\* one of a lower score of the same result set.
ScoreDirectionRespected ==
    call.op \in AnswerOps =>
        \A i \in 1..Len(request.docs), j \in 1..Len(request.docs) :
            (request.docs[i].score > request.docs[j].score /\ Kept(request.docs[j]))
                => Kept(request.docs[i])

\* no entry without its topic row and no topic without its category row
NoOrphans ==
    /\ \A e \in entries : TopicRows(e.topic_id) # {}
    /\ \A t \in topics : CategoryRows(t.category_id) # {}

\* C29: a cascade deletes bottom-up. A topic row is removed only when no
\* entry of the topic is left and a category row only when no topic of the
\* category is left, so in every state of a cascade, and after one that
\* failed partway, every entry has its topic row and every topic its
\* category row.
BottomUpDeletion ==
    /\ []NoOrphans
    /\ [][/\ \A t \in topics \ topics' : EntriesOf(t.id) = {}
          /\ \A c \in categories \ categories' : TopicsOf(c.id) = {}]_vars

\* a delete_category that removed the entries it had found and then failed at
\* a topic
BottomUpWitness ==
    \E w \in Writers :
        /\ writers[w].op = "delete_category"
        /\ writers[w].failed
        /\ writers[w].found.entry_ids # {}
        /\ \A e \in entries : e.id \notin writers[w].found.entry_ids
        /\ \E t \in topics : t.id \in writers[w].found.topic_ids

\* the parent and, for entries, what update_entry does not rewrite
SameIdentity(op, row, current) ==
    /\ row.id = current.id
    /\ op = "update_topic" => row.category_id = current.category_id
    /\ op = "update_entry" => row.topic_id = current.topic_id

\* C30: an update of an existing id never loses or duplicates the row. In
\* every state from the lookup on, also between the statements, where a
\* concurrent reader looks, and after the update returned or raised, the table
\* holds exactly one row of that id, with the id and the parent it had; an
\* update of an id that does not exist raises not-found and changes no table.
UpdateKeepsRow ==
    /\ [](\A w \in Writers :
            LET activation == writers[w]
            IN  (activation.op \in Updates /\ activation.returned # "notfound") =>
                    /\ Cardinality(RowsOf(activation.op, activation.id)) = 1
                    /\ \A row \in RowsOf(activation.op, activation.id) :
                            SameIdentity(activation.op, row, activation.row[1]))
    /\ [][\A w \in Writers :
            (writers'[w].op \in Updates /\ writers'[w].returned = "notfound") =>
                <<categories, topics, entries>>' = <<categories, topics, entries>>]_vars
====
